---- MODULE Spec2Model ----
(***************************************************************************)
(* Model of test_repo/hello.py, a stop hook: it tests a hardcoded list of  *)
(* issues, and either prints a JSON object and exits with status 2, or     *)
(* exits with status 0.                                                    *)
(*                                                                         *)
(* A Python str is modelled as a sequence of Unicode code points, so that  *)
(* the string join, the JSON encoding and the JSON decoding are computed   *)
(* character by character.                                                 *)
(***************************************************************************)
EXTENDS Integers, Sequences, FiniteSets, TLC

(* ---- bounds ---- *)
MaxIssues == 2
MaxRuns == 2

(* ---- code points used by the script and by the JSON encoder ---- *)
LF == 10
SPACE == 32
QUOTE == 34
COMMA == 44
COLON == 58
BACKSLASH == 92
LBRACE == 123
RBRACE == 125
BULLET == 8226

(* "Issue 1", "Issue 2" *)
Issue1 == <<73, 115, 115, 117, 101, 32, 49>>
Issue2 == <<73, 115, 115, 117, 101, 32, 50>>

(* the list literal of line 4, as shipped *)
ShippedIssues == <<Issue1, Issue2>>

(* U+26A0 U+FE0F " BONZAI BURN FOUND ISSUES:" *)
Header ==
    <<9888, 65039, 32, 66, 79, 78, 90, 65, 73, 32, 66, 85, 82, 78, 32,
      70, 79, 85, 78, 68, 32, 73, 83, 83, 85, 69, 83, 58>>

(* "continue", "stopReason" *)
KeyContinue == <<99, 111, 110, 116, 105, 110, 117, 101>>
KeyStopReason == <<115, 116, 111, 112, 82, 101, 97, 115, 111, 110>>

(* "true", "false" *)
LitTrue == <<116, 114, 117, 101>>
LitFalse == <<102, 97, 108, 115, 101>>

(* Issue strings a version of the script may hardcode: the two shipped     *)
(* ones, the empty string, and strings with a quote, a backslash, a line   *)
(* feed and a non-ASCII character.                                         *)
IssueStrings ==
    { Issue1, Issue2, <<>>, <<97, QUOTE, 98>>, <<BACKSLASH>>,
      <<120, LF>>, <<233>> }

RECURSIVE SeqsUpTo(_, _)
SeqsUpTo(S, n) ==
    IF n = 0 THEN { <<>> }
    ELSE LET shorter == SeqsUpTo(S, n - 1)
         IN  shorter \cup { Append(l, x) : l \in shorter, x \in S }

IssueLists == SeqsUpTo(IssueStrings, MaxIssues)

(* ---- line 9: the message ---- *)

(* f"• {i}" *)
BulletLine(i) == <<BULLET, SPACE>> \o i

(* a join that also ends the last part with the separator *)
RECURSIVE Join_Trailing(_, _)
Join_Trailing(sep, parts) ==
    IF Len(parts) = 0 THEN <<>>
    ELSE parts[1] \o sep \o Join_Trailing(sep, Tail(parts))

(* sep.join(parts) *)
RECURSIVE Join(_, _)
Join(sep, parts) ==
    IF Len(parts) = 0 THEN <<>>
    ELSE IF Len(parts) = 1 THEN parts[1]
    ELSE parts[1] \o sep \o Join(sep, Tail(parts))

(* HEADER + "\n" + "\n".join(f"• {i}" for i in issues) *)
StopReason(iss) ==
    Header \o <<LF>> \o Join(<<LF>>, [k \in 1..Len(iss) |-> BulletLine(iss[k])])

(* ---- line 11: json.dumps with the default ensure_ascii=True ---- *)

HexDigit(d) == IF d < 10 THEN 48 + d ELSE 87 + d

(* '\\u{0:04x}'.format(n) *)
UEscape(n) ==
    <<BACKSLASH, 117, HexDigit((n \div 4096) % 16), HexDigit((n \div 256) % 16),
      HexDigit((n \div 16) % 16), HexDigit(n % 16)>>

(* one character of a str, as json.encoder's py_encode_basestring_ascii    *)
(* writes it: everything outside ' '..'~', the quote and the backslash are *)
(* escaped; characters beyond the BMP become a surrogate pair.             *)
EscapeChar(c) ==
    IF c = QUOTE THEN <<BACKSLASH, QUOTE>>
    ELSE IF c = BACKSLASH THEN <<BACKSLASH, BACKSLASH>>
    ELSE IF c = LF THEN <<BACKSLASH, 110>>
    ELSE IF c = 13 THEN <<BACKSLASH, 114>>
    ELSE IF c = 9 THEN <<BACKSLASH, 116>>
    ELSE IF c = 8 THEN <<BACKSLASH, 98>>
    ELSE IF c = 12 THEN <<BACKSLASH, 102>>
    ELSE IF c >= SPACE /\ c <= 126 THEN <<c>>
    ELSE IF c < 65536 THEN UEscape(c)
    ELSE UEscape(55296 + (((c - 65536) \div 1024) % 1024))
         \o UEscape(56320 + ((c - 65536) % 1024))

(* the characters s[lo..hi] of a str, escaped (the work is split in halves) *)
RECURSIVE EscapeRange(_, _, _)
EscapeRange(s, lo, hi) ==
    IF lo > hi THEN <<>>
    ELSE IF lo = hi THEN EscapeChar(s[lo])
    ELSE EscapeRange(s, lo, (lo + hi) \div 2) \o EscapeRange(s, (lo + hi) \div 2 + 1, hi)

EscapeChars(s) == EscapeRange(s, 1, Len(s))

(* a string literal written without escaping *)
DumpsString_Raw(s) == <<QUOTE>> \o s \o <<QUOTE>>

(* json.dumps(s) of a str *)
DumpsString(s) == <<QUOTE>> \o EscapeChars(s) \o <<QUOTE>>

(* json.dumps(b) of a bool *)
DumpsBool(b) == IF b THEN LitTrue ELSE LitFalse

(* only the message is encoded, not the dict *)
DumpsResponse_OnlyMessage(r) == DumpsString(r.stopReason)

(* json.dumps(response) of the dict of lines 7-10: the members in          *)
(* insertion order, separated by ", ", key and value by ": ".              *)
DumpsResponse(r) ==
    <<LBRACE>>
    \o DumpsString(KeyContinue) \o <<COLON, SPACE>> \o DumpsBool(r.continue)
    \o <<COMMA, SPACE>>
    \o DumpsString(KeyStopReason) \o <<COLON, SPACE>> \o DumpsString(r.stopReason)
    \o <<RBRACE>>

(* ---- the script as a state machine ---- *)

VARIABLES
    hardcoded,    \* the list literal that line 4 of this version of the script holds
    issues,       \* the module variable issues
    response,     \* the module variable response: <<>> while unbound, else <<dict>>
    stdout,       \* what the process has written to standard output, one entry per write
    exit_status,  \* <<>> while the process runs, <<code>> once it has exited
    pc,           \* the statement the interpreter is at
    runs,         \* how many times the script has been started
    history       \* the outcomes of the earlier runs

vars == <<hardcoded, issues, response, stdout, exit_status, pc, runs, history>>

(* what a run leaves behind *)
Outcome == [issues |-> issues, stdout |-> stdout, exit_status |-> exit_status]

(* lines 1-4 have run: issues is bound to the literal *)
Init ==
    /\ hardcoded \in IssueLists
    /\ issues = hardcoded
    /\ response = <<>>
    /\ stdout = <<>>
    /\ exit_status = <<>>
    /\ pc = "if"
    /\ runs = 1
    /\ history = {}

(* the test of line 6 negated *)
TestIssues_Inverted ==
    /\ pc = "if"
    /\ pc' = IF Len(issues) > 0 THEN "exit0" ELSE "build"
    /\ UNCHANGED <<hardcoded, issues, response, stdout, exit_status, runs, history>>

(* line 6: if issues *)
TestIssues ==
    /\ pc = "if"
    /\ pc' = IF Len(issues) > 0 THEN "build" ELSE "exit0"
    /\ UNCHANGED <<hardcoded, issues, response, stdout, exit_status, runs, history>>

(* the response is built by consuming the list *)
BuildResponse_Pops ==
    /\ pc = "build"
    /\ response' = << [continue |-> FALSE, stopReason |-> StopReason(issues)] >>
    /\ issues' = Tail(issues)
    /\ pc' = "print"
    /\ UNCHANGED <<hardcoded, stdout, exit_status, runs, history>>

(* lines 7-10: response = {...} *)
BuildResponse ==
    /\ pc = "build"
    /\ response' = << [continue |-> FALSE, stopReason |-> StopReason(issues)] >>
    /\ pc' = "print"
    /\ UNCHANGED <<hardcoded, issues, stdout, exit_status, runs, history>>

(* the payload is printed twice *)
PrintResponse_Twice ==
    /\ pc = "print"
    /\ stdout' = stdout \o << DumpsResponse(response[1]) \o <<LF>>,
                             DumpsResponse(response[1]) \o <<LF>> >>
    /\ pc' = "exit2"
    /\ UNCHANGED <<hardcoded, issues, response, exit_status, runs, history>>

(* line 11: print(json.dumps(response)) *)
PrintResponse ==
    /\ pc = "print"
    /\ stdout' = Append(stdout, DumpsResponse(response[1]) \o <<LF>>)
    /\ pc' = "exit2"
    /\ UNCHANGED <<hardcoded, issues, response, exit_status, runs, history>>

(* the blocking path exits with the generic failure status *)
ExitBlock_Status1 ==
    /\ pc = "exit2"
    /\ exit_status' = <<1>>
    /\ pc' = "done"
    /\ UNCHANGED <<hardcoded, issues, response, stdout, runs, history>>

(* line 12: sys.exit(2) *)
ExitBlock ==
    /\ pc = "exit2"
    /\ exit_status' = <<2>>
    /\ pc' = "done"
    /\ UNCHANGED <<hardcoded, issues, response, stdout, runs, history>>

(* the allow path prints a payload of its own before exiting *)
ExitAllow_Prints ==
    /\ pc = "exit0"
    /\ stdout' = Append(stdout,
                        DumpsResponse([continue |-> TRUE, stopReason |-> <<>>]) \o <<LF>>)
    /\ exit_status' = <<0>>
    /\ pc' = "done"
    /\ UNCHANGED <<hardcoded, issues, response, runs, history>>

(* the allow path falls off the end with another status *)
ExitAllow_Status1 ==
    /\ pc = "exit0"
    /\ exit_status' = <<1>>
    /\ pc' = "done"
    /\ UNCHANGED <<hardcoded, issues, response, stdout, runs, history>>

(* line 14: sys.exit(0) *)
ExitAllow ==
    /\ pc = "exit0"
    /\ exit_status' = <<0>>
    /\ pc' = "done"
    /\ UNCHANGED <<hardcoded, issues, response, stdout, runs, history>>

(* a restart that inherits the previous run's output *)
Rerun_KeepsStdout ==
    /\ pc = "done"
    /\ runs < MaxRuns
    /\ runs' = runs + 1
    /\ history' = history \cup {Outcome}
    /\ issues' = hardcoded
    /\ response' = <<>>
    /\ exit_status' = <<>>
    /\ pc' = "if"
    /\ UNCHANGED <<hardcoded, stdout>>

(* the script is started again, in a fresh process: lines 1-4 *)
Rerun ==
    /\ pc = "done"
    /\ runs < MaxRuns
    /\ runs' = runs + 1
    /\ history' = history \cup {Outcome}
    /\ issues' = hardcoded
    /\ response' = <<>>
    /\ stdout' = <<>>
    /\ exit_status' = <<>>
    /\ pc' = "if"
    /\ UNCHANGED hardcoded

(* one statement of the running process *)
Step == TestIssues \/ BuildResponse \/ PrintResponse \/ ExitBlock \/ ExitAllow

Next == Step \/ Rerun

Spec == Init /\ [][Next]_vars

(* a started process is scheduled until it exits *)
FairSpec == Spec /\ WF_vars(Step)

(***************************************************************************)
(* Reading the output back: a JSON decoder for the values the claims speak *)
(* of (objects, arrays, strings, true and false), and str.split("\n").     *)
(* A decoded value is a record with a kind; a text that is not one JSON    *)
(* value decodes to JError.                                                *)
(***************************************************************************)
JError == [kind |-> "error"]
JString(s) == [kind |-> "string", str |-> s]
JBool(b) == [kind |-> "bool", val |-> b]
JArray(items) == [kind |-> "array", items |-> items]
JObject(members) == [kind |-> "object", members |-> members]

Fail == [ok |-> FALSE]
Parsed(v, n) == [ok |-> TRUE, val |-> v, next |-> n]

IsWs(c) == c \in {SPACE, LF, 13, 9}

RECURSIVE SkipWs(_, _)
SkipWs(s, i) == IF i <= Len(s) /\ IsWs(s[i]) THEN SkipWs(s, i + 1) ELSE i

HexVal(c) ==
    IF c >= 48 /\ c <= 57 THEN c - 48
    ELSE IF c >= 97 /\ c <= 102 THEN c - 87
    ELSE IF c >= 65 /\ c <= 70 THEN c - 55
    ELSE -1

(* the code unit of the four hex digits at s[i..i+3], or -1 *)
Hex4At(s, i) ==
    IF i + 3 > Len(s) THEN -1
    ELSE LET a == HexVal(s[i])  b == HexVal(s[i + 1])
             c == HexVal(s[i + 2])  d == HexVal(s[i + 3])
         IN  IF a < 0 \/ b < 0 \/ c < 0 \/ d < 0 THEN -1
             ELSE 4096 * a + 256 * b + 16 * c + d

SimpleEscape(c) ==
    IF c = 110 THEN LF
    ELSE IF c = 114 THEN 13
    ELSE IF c = 116 THEN 9
    ELSE IF c = 98 THEN 8
    ELSE IF c = 102 THEN 12
    ELSE IF c \in {QUOTE, BACKSLASH, 47} THEN c
    ELSE -1

(* the elements of a set of positions, in increasing order *)
Sorted(S) ==
    LET before == [j \in S |-> Cardinality({k \in S : k < j})]
    IN  [n \in 1..Cardinality(S) |-> CHOOSE j \in S : before[j] = n - 1]

(* how many backslashes in a row end at s[j] *)
BsRun(s, j) == Cardinality({k \in 1..j : \A m \in k..j : s[m] = BACKSLASH})

(* s[j] is a backslash that starts an escape sequence *)
IsIntro(s, j) == s[j] = BACKSLASH /\ BsRun(s, j) % 2 = 1

IsHigh(u) == u >= 55296 /\ u <= 56319
IsLow(u) == u >= 56320 /\ u <= 57343

(* s[j] starts a \uXXXX escape *)
IsUEscape(s, j) == IsIntro(s, j) /\ j + 1 <= Len(s) /\ s[j + 1] = 117

(* the \uXXXX escape at s[j] is the first half of a surrogate pair *)
IsPair(s, j) ==
    /\ IsHigh(Hex4At(s, j + 2))
    /\ j + 7 <= Len(s) /\ s[j + 6] = BACKSLASH /\ s[j + 7] = 117
    /\ IsLow(Hex4At(s, j + 8))

(* the length of the escape sequence that starts at s[j] *)
EscLen(s, j) == IF ~IsUEscape(s, j) THEN 2 ELSE IF IsPair(s, j) THEN 12 ELSE 6

(* the character an escape sequence at s[j] stands for, or -1 *)
EscValue(s, j) ==
    IF j + 1 > Len(s) THEN -1
    ELSE IF s[j + 1] # 117 THEN SimpleEscape(s[j + 1])
    ELSE IF IsPair(s, j)
         THEN 65536 + (Hex4At(s, j + 2) - 55296) * 1024 + (Hex4At(s, j + 8) - 56320)
    ELSE Hex4At(s, j + 2)

(* the string literal whose opening quote is s[i] *)
ParseString(s, i) ==
    IF i > Len(s) \/ s[i] # QUOTE THEN Fail
    ELSE
    LET closers == {j \in (i + 1)..Len(s) : s[j] = QUOTE /\ ~IsIntro(s, j - 1)}
    IN  IF closers = {} THEN Fail
        ELSE
        LET close == CHOOSE j \in closers : \A k \in closers : j <= k
            body == (i + 1)..(close - 1)
            intros == {j \in body : IsIntro(s, j)}
            inside == {j \in body : \E k \in intros : k < j /\ j < k + EscLen(s, k)}
            units == Sorted(body \ inside)
            chars == [n \in 1..Len(units) |->
                        IF units[n] \in intros THEN EscValue(s, units[n])
                        ELSE IF s[units[n]] < SPACE THEN -1
                        ELSE s[units[n]]]
        IN  IF \E n \in 1..Len(chars) : chars[n] < 0 THEN Fail
            ELSE Parsed(JString(chars), close + 1)

StartsWithAt(s, i, lit) ==
    /\ i + Len(lit) - 1 <= Len(s)
    /\ \A k \in 1..Len(lit) : s[i + k - 1] = lit[k]

RECURSIVE ParseValue(_, _)
RECURSIVE ParseMembers(_, _, _)
RECURSIVE ParseItems(_, _, _)

(* the JSON value that starts at s[i], after white space; 91 opens an array *)
ParseValue(s, i0) ==
    LET i == SkipWs(s, i0)
    IN  IF i > Len(s) THEN Fail
        ELSE IF s[i] = QUOTE THEN ParseString(s, i)
        ELSE IF s[i] = LBRACE THEN
            LET j == SkipWs(s, i + 1)
            IN  IF j <= Len(s) /\ s[j] = RBRACE THEN Parsed(JObject(<<>>), j + 1)
                ELSE ParseMembers(s, j, <<>>)
        ELSE IF s[i] = 91 THEN
            LET j == SkipWs(s, i + 1)
            IN  IF j <= Len(s) /\ s[j] = 93 THEN Parsed(JArray(<<>>), j + 1)
                ELSE ParseItems(s, j, <<>>)
        ELSE IF StartsWithAt(s, i, LitTrue) THEN Parsed(JBool(TRUE), i + Len(LitTrue))
        ELSE IF StartsWithAt(s, i, LitFalse) THEN Parsed(JBool(FALSE), i + Len(LitFalse))
        ELSE Fail

(* key: value members up to the closing brace; acc holds <<key, value>> pairs *)
ParseMembers(s, i, acc) ==
    LET k == ParseString(s, SkipWs(s, i))
    IN  IF ~k.ok THEN Fail
        ELSE LET c == SkipWs(s, k.next)
             IN  IF c > Len(s) \/ s[c] # COLON THEN Fail
                 ELSE LET v == ParseValue(s, c + 1)
                      IN  IF ~v.ok THEN Fail
                          ELSE LET e == SkipWs(s, v.next)
                                   got == Append(acc, <<k.val.str, v.val>>)
                               IN  IF e > Len(s) THEN Fail
                                   ELSE IF s[e] = COMMA THEN ParseMembers(s, e + 1, got)
                                   ELSE IF s[e] = RBRACE THEN Parsed(JObject(got), e + 1)
                                   ELSE Fail

(* array items up to the closing bracket (93) *)
ParseItems(s, i, acc) ==
    LET v == ParseValue(s, i)
    IN  IF ~v.ok THEN Fail
        ELSE LET e == SkipWs(s, v.next)
                 got == Append(acc, v.val)
             IN  IF e > Len(s) THEN Fail
                 ELSE IF s[e] = COMMA THEN ParseItems(s, e + 1, got)
                 ELSE IF s[e] = 93 THEN Parsed(JArray(got), e + 1)
                 ELSE Fail

(* json.loads(text): text holds exactly one JSON value *)
JsonLoads(text) ==
    LET v == ParseValue(text, 1)
    IN  IF v.ok /\ SkipWs(text, v.next) = Len(text) + 1 THEN v.val ELSE JError

(* an object's member of a given key *)
HasOne(obj, key) ==
    Cardinality({ k \in 1..Len(obj.members) : obj.members[k][1] = key }) = 1

Get(obj, key) ==
    obj.members[CHOOSE k \in 1..Len(obj.members) : obj.members[k][1] = key][2]

(* s.split("\n") *)
SplitLines(s) ==
    LET lf == Sorted({k \in 1..Len(s) : s[k] = LF})
        n == Len(lf) + 1
    IN  [k \in 1..n |->
            SubSeq(s, IF k = 1 THEN 1 ELSE lf[k - 1] + 1,
                      IF k = n THEN Len(s) ELSE lf[k] - 1)]

(* needle occurs in hay *)
Contains(hay, needle) ==
    \E i \in 1..(Len(hay) - Len(needle) + 1) : StartsWithAt(hay, i, needle)

HasLF(s) == \E k \in 1..Len(s) : s[k] = LF

(* the run has ended *)
Exited == pc = "done"
Blocking == Len(issues) > 0

(* the decoded payload of a run that wrote exactly one line *)
Payload == JsonLoads(stdout[1])

(* the members the script's payload has *)
ExpectedPayload(iss) ==
    JObject(<< <<KeyContinue, JBool(FALSE)>>,
               <<KeyStopReason, JString(StopReason(iss))>> >>)

(* the position of a statement in the script *)
Rank(p) ==
    CASE p = "if" -> 0
      [] p = "build" -> 1
      [] p = "print" -> 2
      [] p = "exit2" -> 3
      [] p = "exit0" -> 3
      [] p = "done" -> 4

(***************************************************************************)
(* The claims                                                              *)
(***************************************************************************)

(* C1: for every issue list, a run that has ended has exit status 2 if and *)
(* only if the list is non-empty, and exit status 0 if and only if it is   *)
(* empty.                                                                  *)
C1_ExitStatusIffIssues ==
    Exited =>
        /\ (exit_status = <<2>>) <=> (Len(issues) > 0)
        /\ (exit_status = <<0>>) <=> (Len(issues) = 0)

C1_Witness ==
    Exited /\ exit_status = <<2>> /\ Len(issues) = 1 /\ hardcoded # ShippedIssues

(* C2: when the run blocks, standard output holds one JSON object with a   *)
(* member "continue" whose value is false and a member "stopReason" whose  *)
(* value is a string in which every issue occurs.                          *)
C2_BlockPayloadIsObject ==
    Exited /\ Blocking =>
        /\ Len(stdout) = 1
        /\ \A p \in {Payload} :
              /\ p.kind = "object"
              /\ HasOne(p, KeyContinue)
              /\ Get(p, KeyContinue) = JBool(FALSE)
              /\ HasOne(p, KeyStopReason)
              /\ \A m \in {Get(p, KeyStopReason)} :
                    /\ m.kind = "string"
                    /\ \A k \in 1..Len(issues) : Contains(m.str, issues[k])

C2_Witness ==
    /\ Exited /\ Blocking /\ Len(stdout) = 1
    /\ \E k \in 1..Len(issues) : HasLF(issues[k]) \/ Contains(issues[k], <<QUOTE>>)

(* C3, as claimed: the JSON value written to standard output is the list   *)
(* of the issue strings.                                                   *)
C3_OutputIsIssueList ==
    Exited /\ Blocking =>
        /\ Len(stdout) = 1
        /\ Payload = JArray([k \in 1..Len(issues) |-> JString(issues[k])])

(* C3, amended: when the list is non-empty the JSON value written to       *)
(* standard output is not a list but the object                            *)
(* {"continue": false, "stopReason": message}, where message is the header *)
(* line followed by one bullet line per issue string.                      *)
C3_OutputIsResponseObject ==
    Exited /\ Blocking =>
        /\ Len(stdout) = 1
        /\ \A p \in {Payload} : p.kind # "array" /\ p = ExpectedPayload(issues)

C3_Witness ==
    Exited /\ Len(stdout) = 1 /\ Len(issues) = 2 /\ Payload.kind = "object"

(* C4: when the issue list is empty nothing is ever written to standard    *)
(* output and the run ends with exit status 0; output exists only on the   *)
(* blocking path.                                                          *)
C4_AllowWritesNothing ==
    /\ ~Blocking => stdout = <<>>
    /\ Exited /\ ~Blocking => exit_status = <<0>>
    /\ stdout # <<>> => Blocking

C4_Witness ==
    Exited /\ issues = <<>> /\ exit_status = <<0>> /\ stdout = <<>>

(* C5: in every state of every run the issue list equals the hardcoded     *)
(* list (for the shipped version, "Issue 1" then "Issue 2"), and no step   *)
(* changes it.                                                             *)
C5_IssuesConstant ==
    /\ [](/\ issues = hardcoded
          /\ hardcoded = ShippedIssues => issues = <<Issue1, Issue2>>)
    /\ [][issues' = issues /\ hardcoded' = hardcoded]_vars

C5_Witness ==
    Exited /\ runs > 1 /\ issues = <<Issue1, Issue2>>

(* C6: the stopReason message starts with the header line; when no issue   *)
(* holds a line feed it has n + 1 lines for n issues, line k + 1 being the *)
(* bullet, a space and issue k, and it does not end with a line feed.      *)
C6_MessageLines ==
    response # <<>> =>
        LET msg == response[1].stopReason
            lines == SplitLines(msg)
            n == Len(issues)
        IN  /\ lines[1] = Header
            /\ (\A k \in 1..n : ~HasLF(issues[k])) =>
                  /\ Len(lines) = n + 1
                  /\ \A k \in 1..n : lines[k + 1] = <<BULLET, SPACE>> \o issues[k]
                  /\ msg[Len(msg)] # LF

C6_Witness ==
    /\ response # <<>>
    /\ Len(issues) = 2
    /\ issues[1] # issues[2]
    /\ \A k \in 1..2 : ~HasLF(issues[k])

(* C7: on the blocking path the payload is written exactly once, in a step *)
(* before the one that sets the exit status; nothing is written once the   *)
(* exit status is set; exit status 2 is never set without the payload      *)
(* having been written.                                                    *)
C7_PayloadOnceBeforeExit ==
    /\ [](Len(stdout) <= 1)
    /\ [](exit_status = <<2>> => Len(stdout) = 1)
    /\ [][Len(stdout') > Len(stdout) => exit_status = <<>> /\ exit_status' = <<>>]_vars
    /\ [][exit_status # <<>> /\ exit_status' # <<>> => stdout' = stdout]_vars

C7_Witness ==
    exit_status = <<2>> /\ Len(stdout) = 1 /\ pc = "done"

(* C8: with the shipped list the allow path is never taken, a run that has *)
(* ended has exit status 2 and a payload whose message lists "Issue 1"     *)
(* then "Issue 2", and every run does end that way.                        *)
C8_ShippedAlwaysBlocks ==
    /\ [](hardcoded = ShippedIssues => pc # "exit0" /\ exit_status # <<0>>)
    /\ [](hardcoded = ShippedIssues /\ Exited =>
             /\ exit_status = <<2>>
             /\ Len(stdout) = 1
             /\ \A p \in {Payload} :
                   /\ p.kind = "object"
                   /\ HasOne(p, KeyStopReason)
                   /\ \A m \in {Get(p, KeyStopReason)} :
                         /\ m.kind = "string"
                         /\ \A lines \in {SplitLines(m.str)} :
                               lines = <<Header, <<BULLET, SPACE>> \o Issue1,
                                         <<BULLET, SPACE>> \o Issue2>>)
    /\ (hardcoded = ShippedIssues /\ pc = "if") ~> (Exited /\ exit_status = <<2>>)

C8_Witness ==
    hardcoded = ShippedIssues /\ Exited /\ exit_status = <<2>> /\ stdout # <<>>

(* C9: every run ends; each statement moves the run forward, so it ends    *)
(* within four steps; a run that has ended has exit status 0 or 2, and a   *)
(* run has an exit status exactly when it has ended.                       *)
C9_Terminates ==
    /\ [](Exited => exit_status \in {<<0>>, <<2>>})
    /\ [](exit_status # <<>> <=> Exited)
    /\ [][~Exited /\ pc' # pc => Rank(pc') > Rank(pc)]_vars
    /\ (~Exited) ~> Exited

C9_Witness ==
    Exited /\ history # {} /\ exit_status \in {<<0>>, <<2>>}

====
